---- MODULE Spec2Model ----
(***************************************************************************)
(* Account-pool maintenance (pool_maintenance.py, config.py).              *)
(*                                                                         *)
(* The accounts table is a function from e-mail to row; wall-clock time is *)
(* counted in whole minutes (the one-second pacing delay is below the      *)
(* clock's resolution); a bearer token is the shape of its text plus the   *)
(* exp claim of its payload.  Everything the program cannot                *)
(* control (the refresh service's answer, the quota service's answer, a    *)
(* storage call raising, another writer of the table, the passing of time, *)
(* the operator's commands and the stop signal) is a nondeterministic      *)
(* choice.                                                                 *)
(***************************************************************************)
EXTENDS Integers, Sequences, FiniteSets, TLC

\* ---------------------------------------------------------------- config
MIN_POOL_SIZE == 25
TOKEN_REFRESH_HOURS == 1
MAINTENANCE_CHECK_INTERVAL == 120
MIN_QUOTA_THRESHOLD == 10
\* is_token_expired(..., buffer_minutes=10)
BUFFER_MINUTES == 10
\* cleanup_expired_accounts(days=30); PoolMaintainer.cleanup passes days=7
DEFAULT_CLEANUP_DAYS == 30
CLEANUP_DAYS == 7
\* maintenance_loop: if cycle % 10 == 0
CLEANUP_EVERY == 10
\* verify_accounts: await asyncio.sleep(1)
PACING_DELAY == 1

\* the clock counts minutes; the program's delays are given in seconds
SecondsPerMinute == 60
Minutes(seconds) == seconds \div SecondsPerMinute
Hour == Minutes(60 * 60)
Day == 24 * Hour

\* ---------------------------------------------------------------- bounds
\* cycles of one run of the maintenance loop
MaxCycle == 1
\* commands typed at the interactive prompt
MaxCommands == 1
\* long waits (an hour, several days) while the program idles
MaxJumps == 1
\* writes of the table by another process
MaxExternalWrites == 1
\* lifetime, in minutes, of a bearer token the refresh service issues
\* the largest pool of SpecHealth: active, expired and blocked rows
MaxActive == 30
MaxExpired == 5
MaxBlocked == 1
\* verification passes run one after the other in SpecTwice
MaxPasses == 2
\* cycles of the maintenance loop in the long run of SpecLoop
MaxLoopCycle == 11
TokenLifetime == 60

\* wall-clock time of the first state
T0 == 20 * Day

Accounts == {"a1", "a2"}
\* the order in which SELECT returns the rows
RowOrder == <<"a1", "a2">>

\* ---------------------------------------------------------------- data
NoTime == 0

\* id_token: the shape of the text and, for a JWT with a decodable payload,
\* its exp claim (0: no exp field)
EmptyToken == [form |-> "empty", exp |-> 0]
Jwt(exp) == [form |-> "jwt", exp |-> exp]

\* a row that is not in the table
DeletedRow ==
    [status |-> "deleted", id_token |-> EmptyToken, refresh_token |-> "",
     last_refresh_time |-> NoTime]

\* dataclass Account, as _to_account builds it from a row
ToAccount(email, row) ==
    [email |-> email, status |-> row.status, id_token |-> row.id_token,
     refresh_token |-> row.refresh_token,
     last_refresh_time |-> row.last_refresh_time]

VARIABLES
    rows,        \* the accounts table: e-mail -> row
    now,         \* wall-clock time, minutes
    pc,          \* where the program is
    cmd,         \* the interactive command being run ("none": at the prompt)
    running,     \* PoolMaintainer.running
    cycle,       \* maintenance_loop's cycle counter
    pending,     \* verify_accounts: the listed accounts not yet processed
    listed,      \* e-mails verify_accounts listed in the current pass
    processed,   \* e-mails whose loop body has run in the current pass
    passState,   \* "none", "running", "done", "aborted", "interrupted"
    last,        \* what the loop body did, when it was the last step
    purgeLog,    \* what cleanup_expired_accounts did, when it was the last step
    report,      \* what check_pool_health saw, when it was the last step
    raised,      \* the operation an exception has left ("" for none), kept
                 \* until the operation after it reports
    stopSignal,  \* a stop was requested since start()
    commands,    \* commands typed so far
    jumps,       \* long waits so far
    extWrites,   \* writes by another process so far
    cap,         \* how far this behaviour is followed: the bounds
    hist         \* what is remembered of earlier steps, where cap asks for it:
                 \* the services' answers per account, the table at each
                 \* listing, the time of each account's last refresh attempt
                 \* and of its demotion

vars == <<rows, now, pc, cmd, running, cycle, pending, listed, processed,
          passState, last, purgeLog, report, raised, stopSignal, commands,
          jumps,
          extWrites, cap, hist>>

\* ---------------------------------------------------------------- DatabaseManager

GetAllAccounts(db, status) ==
    LET Sel(i) == db[RowOrder[i]].status = status
        F[i \in 0..Len(RowOrder)] ==
            IF i = 0 THEN <<>>
            ELSE IF Sel(i)
                 THEN Append(F[i - 1], ToAccount(RowOrder[i], db[RowOrder[i]]))
                 ELSE F[i - 1]
    IN F[Len(RowOrder)]

GetAccountByEmail(db, email) == ToAccount(email, db[email])

\* update_account_token without its "if refresh_token" branch
UpdateAccountTokenOverwritesSecret(db, email, id_token, refresh_token, t) ==
    IF db[email].status = "deleted" THEN db
    ELSE [db EXCEPT ![email].id_token = id_token,
                    ![email].refresh_token = refresh_token,
                    ![email].last_refresh_time = t]

\* update_account_token with "status = 'active'" added to its SET lists
UpdateAccountTokenReactivates(db, email, id_token, refresh_token, t) ==
    IF db[email].status = "deleted" THEN db
    ELSE IF refresh_token # ""
         THEN [db EXCEPT ![email].id_token = id_token,
                         ![email].refresh_token = refresh_token,
                         ![email].last_refresh_time = t,
                         ![email].status = "active"]
         ELSE [db EXCEPT ![email].id_token = id_token,
                         ![email].last_refresh_time = t,
                         ![email].status = "active"]

UpdateAccountToken(db, email, id_token, refresh_token, t) ==
    IF db[email].status = "deleted" THEN db
    ELSE IF refresh_token # ""
         THEN [db EXCEPT ![email].id_token = id_token,
                         ![email].refresh_token = refresh_token,
                         ![email].last_refresh_time = t]
         ELSE [db EXCEPT ![email].id_token = id_token,
                         ![email].last_refresh_time = t]

\* update_account_status with "id_token = ''" added to its SET list
UpdateAccountStatusClearsToken(db, email, status) ==
    IF db[email].status = "deleted" THEN db
    ELSE [db EXCEPT ![email].status = status, ![email].id_token = EmptyToken]

\* update_account_status with "last_refresh_time = NULL" added to its SET list
UpdateAccountStatusClearsTime(db, email, status) ==
    IF db[email].status = "deleted" THEN db
    ELSE [db EXCEPT ![email].status = status, ![email].last_refresh_time = NoTime]

UpdateAccountStatus(db, email, status) ==
    IF db[email].status = "deleted" THEN db
    ELSE [db EXCEPT ![email].status = status]

CountStatus(db, s) == Cardinality({a \in DOMAIN db : db[a].status = s})

GetStatistics(db) ==
    [active |-> CountStatus(db, "active"),
     expired |-> CountStatus(db, "expired"),
     blocked |-> CountStatus(db, "blocked"),
     total |-> Cardinality({a \in DOMAIN db : db[a].status # "deleted"})]

\* the DELETE with "last_refresh_time IS NULL OR" in its WHERE clause
CleanupMatchesNullIsOld(db, days, t) ==
    {a \in Accounts :
        /\ db[a].status = "expired"
        /\ db[a].last_refresh_time < t - days * Day}

\* the rows DELETE ... WHERE status = 'expired' AND last_refresh_time < cutoff
\* matches; a NULL last_refresh_time compares as NULL and matches nothing
CleanupMatches(db, days, t) ==
    {a \in Accounts :
        /\ db[a].status = "expired"
        /\ db[a].last_refresh_time # NoTime
        /\ db[a].last_refresh_time < t - days * Day}

CleanupExpiredAccounts(db, days, t) ==
    [db |-> [a \in Accounts |->
                IF a \in CleanupMatches(db, days, t) THEN DeletedRow ELSE db[a]],
     deleted_count |-> Cardinality(CleanupMatches(db, days, t))]

\* ---------------------------------------------------------------- TokenRefreshService

\* is_token_expired with < for <=
IsTokenExpiredStrict(id_token, buffer_minutes, t) ==
    IF id_token.form # "jwt" THEN TRUE
    ELSE IF id_token.exp = 0 THEN TRUE
    ELSE (id_token.exp - t) < Minutes(buffer_minutes * 60)

\* the shape of a token's text: "empty"; "segments2", "segments4" (split('.')
\* gives other than 3 parts); "garbled" (the middle part does not decode to
\* JSON); "no_exp" (JSON without exp); "jwt" (JSON with exp)
TokenForms == {"empty", "segments2", "segments4", "garbled", "no_exp", "jwt"}

IsTokenExpired(id_token, buffer_minutes, t) ==
    IF id_token.form = "empty" THEN TRUE
    ELSE IF id_token.form \in {"segments2", "segments4"} THEN TRUE
    ELSE IF id_token.form = "garbled" THEN TRUE
    ELSE IF id_token.form = "no_exp" \/ id_token.exp = 0 THEN TRUE
    ELSE (id_token.exp - t) <= Minutes(buffer_minutes * 60)

\* the cooldown test with the elapsed time compared to nothing
CanRefreshTokenNoCooldown(account, t) ==
    IF account.last_refresh_time = NoTime THEN TRUE
    ELSE (t - account.last_refresh_time) >= 0

CanRefreshToken(account, t) ==
    IF account.last_refresh_time = NoTime THEN TRUE
    ELSE (t - account.last_refresh_time) >= TOKEN_REFRESH_HOURS * Hour

\* what the refresh service may answer
RefreshAnswers ==
    {"http_error", "transport_error", "ok_without_token", "ok_token",
     "ok_token_and_secret"}

\* (success, id_token, refresh_token); on failure the third is a message
RefreshFirebaseToken(refresh_token, answer, t) ==
    CASE answer = "ok_token_and_secret" ->
            [success |-> TRUE, id_token |-> Jwt(t + TokenLifetime),
             refresh_token |-> "rt1"]
      [] answer = "ok_token" ->
            [success |-> TRUE, id_token |-> Jwt(t + TokenLifetime),
             refresh_token |-> ""]
      [] answer = "ok_without_token" ->
            [success |-> TRUE, id_token |-> EmptyToken, refresh_token |-> ""]
      [] OTHER ->
            [success |-> FALSE, id_token |-> EmptyToken, refresh_token |-> ""]

\* which storage call of one loop body raises first, and whether the except
\* clause's own update_account_status raises too
Faults ==
    [first : {"none", "refresh_write", "read", "quota_write"},
     handler_write : BOOLEAN]

\* refresh_account_if_needed giving up on an account that is on cooldown
RefreshAccountIfNeededCoolingFails(db, account, t, answer, fault) ==
    IF ~IsTokenExpired(account.id_token, BUFFER_MINUTES, t)
    THEN [db |-> db, result |-> "valid", refresh |-> "not_called"]
    ELSE IF ~CanRefreshToken(account, t)
    THEN [db |-> db, result |-> "failed", refresh |-> "not_called"]
    ELSE LET r == RefreshFirebaseToken(account.refresh_token, answer, t)
         IN IF r.success /\ r.id_token # EmptyToken
            THEN IF fault
                 THEN [db |-> db, result |-> "raise", refresh |-> "success"]
                 ELSE [db |-> UpdateAccountToken(db, account.email, r.id_token,
                                                 r.refresh_token, t),
                       result |-> "valid", refresh |-> "success"]
            ELSE IF fault
                 THEN [db |-> db, result |-> "raise", refresh |-> "failure"]
                 ELSE [db |-> UpdateAccountStatus(db, account.email, "expired"),
                       result |-> "failed", refresh |-> "failure"]

\* refresh_account_if_needed without its cooldown branch
RefreshAccountIfNeededNoCooldown(db, account, t, answer, fault) ==
    IF ~IsTokenExpired(account.id_token, BUFFER_MINUTES, t)
    THEN [db |-> db, result |-> "valid", refresh |-> "not_called"]
    ELSE LET r == RefreshFirebaseToken(account.refresh_token, answer, t)
         IN IF r.success /\ r.id_token # EmptyToken
            THEN IF fault
                 THEN [db |-> db, result |-> "raise", refresh |-> "success"]
                 ELSE [db |-> UpdateAccountToken(db, account.email, r.id_token,
                                                 r.refresh_token, t),
                       result |-> "valid", refresh |-> "success"]
            ELSE IF fault
                 THEN [db |-> db, result |-> "raise", refresh |-> "failure"]
                 ELSE [db |-> UpdateAccountStatus(db, account.email, "expired"),
                       result |-> "failed", refresh |-> "failure"]

\* result: "valid" (True), "failed" (False), "raise" (a storage call raised);
\* refresh: "not_called", "success" (a new bearer token came back), "failure"
RefreshAccountIfNeeded(db, account, t, answer, fault) ==
    IF ~IsTokenExpired(account.id_token, BUFFER_MINUTES, t)
    THEN [db |-> db, result |-> "valid", refresh |-> "not_called"]
    ELSE IF ~CanRefreshToken(account, t)
    THEN [db |-> db, result |-> "valid", refresh |-> "not_called"]
    ELSE LET r == RefreshFirebaseToken(account.refresh_token, answer, t)
         IN IF r.success /\ r.id_token # EmptyToken
            THEN IF fault
                 THEN [db |-> db, result |-> "raise", refresh |-> "success"]
                 ELSE [db |-> UpdateAccountToken(db, account.email, r.id_token,
                                                 r.refresh_token, t),
                       result |-> "valid", refresh |-> "success"]
            ELSE IF fault
                 THEN [db |-> db, result |-> "raise", refresh |-> "failure"]
                 ELSE [db |-> UpdateAccountStatus(db, account.email, "expired"),
                       result |-> "failed", refresh |-> "failure"]

\* ---------------------------------------------------------------- PoolMaintainer

\* what the quota service may answer
Remainings == {MIN_QUOTA_THRESHOLD - 1, MIN_QUOTA_THRESHOLD}
QuotaAnswers ==
    {[kind |-> "ok", remaining |-> r] : r \in Remainings}
    \cup {[kind |-> k, remaining |-> 0] :
            k \in {"error_envelope", "timeout"}}

\* network: whether the service was asked at all
GetRequestLimit(id_token, answer) ==
    IF id_token = EmptyToken
    THEN [success |-> FALSE, requestsRemaining |-> 0, network |-> FALSE]
    ELSE IF answer.kind = "ok"
    THEN [success |-> TRUE, requestsRemaining |-> answer.remaining,
          network |-> TRUE]
    ELSE [success |-> FALSE, requestsRemaining |-> 0, network |-> TRUE]

\* the threshold test with <= for <
LowQuotaInclusive(remaining) == remaining <= MIN_QUOTA_THRESHOLD

\* line 337: remaining < config.MIN_QUOTA_THRESHOLD
LowQuota(remaining) == remaining < MIN_QUOTA_THRESHOLD

\* the try block of verify_accounts' loop body, lines 319-349.
\* outcome: "healthy", "low_quota", "quota_failed", "refresh_failed",
\* "skipped" (row or token missing), "raise" (an exception left the block)
VerifyTry(db, account, t, answer, qanswer, f) ==
    LET r == RefreshAccountIfNeeded(db, account, t, answer,
                                    f.first = "refresh_write")
        current_account == GetAccountByEmail(r.db, account.email)
        quota_info == GetRequestLimit(current_account.id_token, qanswer)
        Out(d, o, q) ==
            [db |-> d, outcome |-> o, refresh |-> r.refresh,
             quotaCalled |-> q,
             quotaToken |-> IF q THEN current_account.id_token ELSE EmptyToken,
             quotaSuccess |-> q /\ quota_info.success,
             remaining |-> IF q /\ quota_info.success
                           THEN quota_info.requestsRemaining ELSE 0]
    IN  IF r.result = "failed" THEN Out(r.db, "refresh_failed", FALSE)
        ELSE IF r.result = "raise" THEN Out(r.db, "raise", FALSE)
        ELSE IF f.first = "read" THEN Out(r.db, "raise", FALSE)
        ELSE IF current_account.status = "deleted"
                \/ current_account.id_token = EmptyToken
        THEN Out(r.db, "skipped", FALSE)
        ELSE IF quota_info.success
        THEN IF LowQuota(quota_info.requestsRemaining)
             THEN IF f.first = "quota_write" THEN Out(r.db, "raise", TRUE)
                  ELSE Out(UpdateAccountStatus(r.db, account.email, "expired"),
                           "low_quota", TRUE)
             ELSE Out(r.db, "healthy", TRUE)
        ELSE IF f.first = "quota_write" THEN Out(r.db, "raise", TRUE)
             ELSE Out(UpdateAccountStatus(r.db, account.email, "expired"),
                      "quota_failed", TRUE)

\* the except clause of the loop body, lines 351-354, entered with the table
\* as the try block left it.  escaped: its own update_account_status raised,
\* so the exception leaves verify_accounts
VerifyExcept(b, email, handler_fault) ==
    IF handler_fault
    THEN [b EXCEPT !.outcome = "exception"] @@ [escaped |-> TRUE]
    ELSE [b EXCEPT !.outcome = "exception",
                   !.db = UpdateAccountStatus(b.db, email, "expired")]
         @@ [escaped |-> FALSE]

\* the whole loop body, lines 319-354
VerifyAccount(db, account, t, answer, qanswer, f) ==
    LET b == VerifyTry(db, account, t, answer, qanswer, f)
    IN  IF b.outcome # "raise" THEN b @@ [escaped |-> FALSE]
        ELSE VerifyExcept(b, account.email, f.handler_write)

\* `continue` leaves the loop body before the pacing sleep
SkipsPacing(outcome) == outcome \in {"refresh_failed", "skipped"}

\* check_pool_health warning at the minimum too
CheckPoolHealthInclusive(stats) ==
    [total |-> stats.total, active |-> stats.active, expired |-> stats.expired,
     blocked |-> stats.blocked, shortfall |-> stats.active <= MIN_POOL_SIZE]

\* check_pool_health: the counts it logs and whether it warns
CheckPoolHealth(stats) ==
    [total |-> stats.total, active |-> stats.active, expired |-> stats.expired,
     blocked |-> stats.blocked, shortfall |-> stats.active < MIN_POOL_SIZE]

\* ---------------------------------------------------------------- state
NoLast ==
    [email |-> "", at |-> 0, pre |-> DeletedRow, post |-> DeletedRow,
     account |-> ToAccount("", DeletedRow),
     outcome |-> "none", refresh |-> "not_called", quotaCalled |-> FALSE,
     quotaToken |-> EmptyToken, quotaSuccess |-> FALSE, remaining |-> 0,
     escaped |-> FALSE, secret |-> ""]

NoPurge == [pre |-> [a \in Accounts |-> DeletedRow],
            post |-> [a \in Accounts |-> DeletedRow], at |-> 0, days |-> 0,
            deleted_count |-> 0]

NoAnswer == [answer |-> "", qanswer |-> [kind |-> "", remaining |-> 0],
             f |-> [first |-> "", handler_write |-> FALSE]]
NoHist == [answers |-> [a \in Accounts |-> NoAnswer], tables |-> <<>>,
           attempt |-> [a \in Accounts |-> NoTime],
           demoted |-> [a \in Accounts |-> NoTime]]

NoReport == [total |-> 0, active |-> 0, expired |-> 0, blocked |-> 0,
             shortfall |-> FALSE]

\* the rows the registration collaborator and earlier runs may have left:
\* bearer tokens that are fresh, at the edge of the expiry buffer, or empty;
\* last refreshes that never happened, are exactly one cooldown old, or are
\* half a cooldown old; expired rows refreshed never, 10 and 3 days ago
FreshToken == Jwt(T0 + Hour)
StaleToken == Jwt(T0 + BUFFER_MINUTES)
Cooling == T0 - (TOKEN_REFRESH_HOURS * Hour) \div 2
Cooled == T0 - TOKEN_REFRESH_HOURS * Hour
Row(status, id_token, last_refresh_time) ==
    [status |-> status, id_token |-> id_token, refresh_token |-> "rt0",
     last_refresh_time |-> last_refresh_time]
InitRows ==
    {Row("active", FreshToken, Cooling)}
    \cup {Row("active", StaleToken, lrt) : lrt \in {NoTime, Cooled, Cooling}}
    \cup {Row("active", EmptyToken, lrt) : lrt \in {NoTime, Cooling}}
    \cup {Row("expired", StaleToken, lrt) :
            lrt \in {NoTime, T0 - 10 * Day, T0 - 3 * Day}}
    \cup {Row("blocked", StaleToken, NoTime)}
\* the second row of the table
SecondRows ==
    {Row("active", StaleToken, NoTime), Row("expired", StaleToken, T0 - 3 * Day),
     Row("blocked", StaleToken, NoTime)}
InitTables == {[a \in Accounts |-> IF a = RowOrder[1] THEN r1 ELSE r2] :
                    r1 \in InitRows, r2 \in SecondRows}

Init ==
    /\ rows \in InitTables
    /\ now = T0
    /\ pc = "prompt"
    /\ cmd = "none"
    /\ running = FALSE
    /\ cycle = 0
    /\ pending = <<>>
    /\ listed = {}
    /\ processed = {}
    /\ passState = "none"
    /\ last = NoLast
    /\ purgeLog = NoPurge
    /\ report = NoReport
    /\ raised = ""
    /\ stopSignal = FALSE
    /\ commands = 0
    /\ jumps = 0
    /\ extWrites = 0
    /\ cap = [cycles |-> MaxCycle, commands |-> MaxCommands, jumps |-> MaxJumps,
               extWrites |-> MaxExternalWrites, replay |-> FALSE,
               history |-> FALSE]
    /\ hist = NoHist

\* ---------------------------------------------------------------- control
env == <<jumps, extWrites, cap, hist>>
passVars == <<pending, listed, processed, passState>>
\* what the last step produced
out == <<last, purgeLog, report, raised>>

NoOut == last' = NoLast /\ purgeLog' = NoPurge /\ report' = NoReport
Quiet == NoOut /\ raised' = ""
NoPass == pending' = <<>> /\ listed' = {} /\ processed' = {} /\ passState' = "none"

Goto(p) == pc' = p /\ UNCHANGED <<cmd, running, cycle, stopSignal>>

\* back at the interactive prompt
ToPrompt ==
    pc' = "prompt" /\ cmd' = "none" /\ UNCHANGED <<running, cycle, stopSignal>>

\* start()'s finally, after which the program ends
StartFinally == running' = FALSE /\ cmd' = "none" /\ pc' = "exited" /\ cycle' = 0

\* maintenance_loop without its except clause: the exception reaches start()
ExceptionLeavesLoop == StartFinally /\ UNCHANGED stopSignal

\* maintenance_loop: except Exception, then the sleep (lines 380-384)
MaintenanceLoopExcept == Goto("sleep")

\* interactive_mode: except Exception (line 423)
InteractiveExcept == ToPrompt

\* an exception leaves the running operation
Raise(operation) ==
    /\ raised' = operation
    /\ IF cmd = "auto" THEN MaintenanceLoopExcept ELSE InteractiveExcept

\* the running operation returns
Finish(p) ==
    /\ raised' = ""
    /\ IF cmd = "auto" THEN Goto(p) ELSE ToPrompt

\* maintenance_loop with the purge in every cycle
AfterVerifyPurgesAlways ==
    /\ raised' = ""
    /\ IF cmd = "auto" THEN Goto("cleanup") ELSE ToPrompt

\* verify_accounts returns: in the loop, the purge follows on every 10th cycle
AfterVerify ==
    /\ raised' = ""
    /\ IF cmd = "auto"
       THEN IF cycle % CLEANUP_EVERY = 0 THEN Goto("cleanup") ELSE Goto("sleep")
       ELSE ToPrompt

\* the loop of verify_accounts goes on
Continue(p) == raised' = "" /\ Goto(p)

\* ---------------------------------------------------------------- interactive_mode
Command(c, p) ==
    /\ pc = "prompt" /\ commands < cap.commands
    /\ cmd' = c /\ pc' = p /\ commands' = commands + 1
    /\ Quiet /\ NoPass
    /\ UNCHANGED <<rows, now, running, cycle, stopSignal, env>>

CmdStatus == Command("status", "health")

CmdVerify == Command("verify", "verify")

CmdClean == Command("clean", "cleanup")

\* `auto`, and main()'s default mode: PoolMaintainer.start
Start ==
    /\ pc = "prompt" /\ commands < cap.commands
    /\ cmd' = "auto" /\ running' = TRUE /\ cycle' = 0 /\ pc' = "loop"
    /\ stopSignal' = FALSE /\ commands' = commands + 1
    /\ Quiet /\ NoPass
    /\ UNCHANGED <<rows, now, env>>

\* ---------------------------------------------------------------- maintenance_loop
\* while self.running: cycle += 1
LoopTop ==
    /\ pc = "loop"
    /\ IF running
       THEN /\ cycle < cap.cycles
            /\ cycle' = cycle + 1 /\ pc' = "health"
            /\ UNCHANGED <<cmd, running, stopSignal>>
       ELSE StartFinally /\ UNCHANGED stopSignal
    /\ NoOut /\ NoPass
    /\ UNCHANGED <<rows, now, raised, commands, env>>

HealthStep ==
    /\ pc = "health"
    /\ \/ report' = CheckPoolHealth(GetStatistics(rows)) /\ Finish("verify")
       \/ report' = NoReport /\ Raise("check_pool_health")
    /\ last' = NoLast /\ purgeLog' = NoPurge
    /\ UNCHANGED <<rows, now, passVars, commands, env>>

\* verify_accounts up to its loop: list the active accounts
VerifyList ==
    /\ pc = "verify"
    /\ \/ LET accounts == GetAllAccounts(rows, "active")
          IN /\ listed' = {accounts[i].email : i \in 1..Len(accounts)}
             /\ processed' = {}
             /\ IF accounts = <<>>
                THEN pending' = <<>> /\ passState' = "done" /\ AfterVerify
                ELSE pending' = accounts /\ passState' = "running"
                     /\ Continue("account")
             /\ hist' = IF cap.replay
                         THEN [hist EXCEPT !.tables = Append(@, rows)]
                         ELSE hist
       \/ /\ listed' = {} /\ processed' = {}
          /\ pending' = <<>> /\ passState' = "aborted"
          /\ Raise("verify_accounts")
          /\ hist' = hist
    /\ NoOut
    /\ UNCHANGED <<rows, now, commands, jumps, extWrites, cap>>

\* what the services were asked and answered for an account, and the
\* store's faults: "" where a service was not asked
Given(v, answer, qanswer, f) ==
    [answer |-> IF v.refresh = "not_called" THEN "" ELSE answer,
     qanswer |-> IF v.quotaCalled THEN qanswer ELSE NoAnswer.qanswer,
     f |-> f]

\* the services and the store answer as far as they are known to have before
AsBefore(before, answer, qanswer, f) ==
    /\ before.answer # "" => answer = before.answer
    /\ before.qanswer # NoAnswer.qanswer => qanswer = before.qanswer
    /\ before.f = f

Merged(given, before) ==
    [answer |-> IF given.answer # "" THEN given.answer ELSE before.answer,
     qanswer |-> IF given.qanswer # NoAnswer.qanswer THEN given.qanswer
                 ELSE before.qanswer,
     f |-> given.f]

\* hist after the loop body has run for account e at time t with result v
Remember(h, c, e, v, answer, qanswer, f, statusBefore, t) ==
    [answers |-> IF c.replay
                 THEN [h.answers EXCEPT
                         ![e] = Merged(Given(v, answer, qanswer, f), h.answers[e])]
                 ELSE h.answers,
     tables |-> h.tables,
     attempt |-> IF c.history /\ v.refresh # "not_called"
                 THEN [h.attempt EXCEPT ![e] = t]
                 ELSE h.attempt,
     demoted |-> IF c.history /\ statusBefore # "expired"
                    /\ v.db[e].status = "expired"
                 THEN [h.demoted EXCEPT ![e] = t]
                 ELSE h.demoted]

\* one run of the loop body, for the next listed account
VerifyOne ==
    /\ pc = "account"
    /\ \E answer \in RefreshAnswers, qanswer \in QuotaAnswers, f \in Faults :
        LET account == Head(pending)
            v == VerifyAccount(rows, account, now, answer, qanswer, f)
            e == account.email
        IN /\ (cap.replay /\ hist.answers[e] # NoAnswer)
                => AsBefore(hist.answers[e], answer, qanswer, f)
           /\ hist' = Remember(hist, cap, e, v, answer, qanswer, f,
                               rows[e].status, now)
           /\ rows' = v.db
           /\ processed' = processed \cup {account.email}
           /\ listed' = listed
           /\ last' = [email |-> account.email, at |-> now,
                       pre |-> rows[account.email],
                       post |-> v.db[account.email],
                       account |-> account,
                       outcome |-> v.outcome, refresh |-> v.refresh,
                       quotaCalled |-> v.quotaCalled,
                       quotaToken |-> v.quotaToken,
                       quotaSuccess |-> v.quotaSuccess,
                       remaining |-> v.remaining,
                       escaped |-> v.escaped,
                       secret |-> IF v.refresh = "success"
                                  THEN RefreshFirebaseToken(
                                           account.refresh_token, answer,
                                           now).refresh_token
                                  ELSE ""]
           /\ IF v.escaped
              THEN pending' = <<>> /\ passState' = "aborted" /\ Raise("verify_accounts")
              ELSE /\ pending' = Tail(pending)
                   /\ IF ~SkipsPacing(v.outcome)
                      THEN passState' = passState /\ Continue("pacing")
                      ELSE IF Tail(pending) = <<>>
                      THEN passState' = "done" /\ AfterVerify
                      ELSE passState' = passState /\ Continue("account")
    /\ purgeLog' = NoPurge /\ report' = NoReport
    /\ UNCHANGED <<now, commands, jumps, extWrites, cap>>

\* await asyncio.sleep(1) at the end of the loop body
Pacing ==
    /\ pc = "pacing"
    /\ now' = now + Minutes(PACING_DELAY)
    /\ IF pending = <<>>
       THEN passState' = "done" /\ AfterVerify
       ELSE passState' = passState /\ Continue("account")
    /\ NoOut
    /\ UNCHANGED <<rows, pending, listed, processed, commands, env>>

\* PoolMaintainer.cleanup
Cleanup ==
    /\ pc = "cleanup"
    /\ \/ LET c == CleanupExpiredAccounts(rows, CLEANUP_DAYS, now)
          IN /\ rows' = c.db
             /\ purgeLog' = [pre |-> rows, post |-> c.db, at |-> now,
                             days |-> CLEANUP_DAYS,
                             deleted_count |-> c.deleted_count]
             /\ Finish("sleep")
       \/ rows' = rows /\ purgeLog' = NoPurge /\ Raise("cleanup")
    /\ last' = NoLast /\ report' = NoReport
    /\ NoPass
    /\ UNCHANGED <<now, commands, env>>

\* await asyncio.sleep(config.MAINTENANCE_CHECK_INTERVAL)
Sleep ==
    /\ pc = "sleep"
    /\ now' = now + Minutes(MAINTENANCE_CHECK_INTERVAL)
    /\ Goto("loop")
    /\ NoOut /\ NoPass
    /\ UNCHANGED <<rows, raised, commands, env>>

\* ---------------------------------------------------------------- environment
\* KeyboardInterrupt reaches start(): except, then finally
Interrupt ==
    /\ cmd = "auto"
    /\ StartFinally
    /\ stopSignal' = TRUE
    /\ pending' = <<>> /\ listed' = {} /\ processed' = {}
    /\ passState' = IF passState = "running" THEN "interrupted" ELSE "none"
    /\ Quiet
    /\ UNCHANGED <<rows, now, commands, env>>

\* a stop request clears the running flag
RequestStop ==
    /\ cmd = "auto" /\ running
    /\ running' = FALSE /\ stopSignal' = TRUE
    /\ UNCHANGED <<rows, now, pc, cmd, cycle, passVars, out, commands, env>>

\* another process (the serving layer, an operator) sets a row's status
\* while a verification pass is under way
ExternalStatuses == {"blocked"}
ExternalSetStatus ==
    /\ pc \in {"account", "pacing"}
    /\ extWrites < cap.extWrites
    /\ \E a \in Accounts, s \in ExternalStatuses :
        /\ rows[a].status \notin {"deleted", s}
        /\ rows' = [rows EXCEPT ![a].status = s]
    /\ extWrites' = extWrites + 1
    /\ UNCHANGED <<now, pc, cmd, running, cycle, passVars, out,
                   stopSignal, commands, jumps, cap, hist>>

\* a long time passes while the program waits at the prompt or sleeps
TimeJumps == {TOKEN_REFRESH_HOURS * Hour, 4 * Day}
Tick ==
    /\ pc \in {"prompt", "sleep"}
    /\ jumps < cap.jumps
    /\ \E d \in TimeJumps : now' = now + d
    /\ jumps' = jumps + 1
    /\ UNCHANGED <<rows, pc, cmd, running, cycle, passVars, out,
                   stopSignal, commands, extWrites, cap, hist>>

Next ==
    \/ CmdStatus \/ CmdVerify \/ CmdClean \/ Start
    \/ LoopTop \/ HealthStep \/ VerifyList \/ VerifyOne \/ Pacing
    \/ Cleanup \/ Sleep
    \/ Interrupt \/ RequestStop \/ ExternalSetStatus \/ Tick

Spec == Init /\ [][Next]_vars

\* The service started in automatic mode and left running for many cycles,
\* long enough for the purge of every 10th cycle, on a table that no other
\* process writes.
\* when the rows that start expired were demoted: 8 days before
DemotedBefore == T0 - 8 * Day
LoopTables ==
    {[a \in Accounts |-> IF a = RowOrder[1] THEN r1 ELSE r2] :
        r1 \in {Row("active", FreshToken, Cooling),
                Row("active", StaleToken, NoTime),
                Row("active", FreshToken, T0 - 8 * Day)},
        r2 \in {Row("expired", StaleToken, T0 - 10 * Day),
                Row("expired", StaleToken, NoTime)}}

InitLoop ==
    /\ rows \in LoopTables
    /\ now = T0
    /\ pc = "prompt"
    /\ cmd = "none"
    /\ running = FALSE
    /\ cycle = 0
    /\ pending = <<>>
    /\ listed = {}
    /\ processed = {}
    /\ passState = "none"
    /\ last = NoLast
    /\ purgeLog = NoPurge
    /\ report = NoReport
    /\ raised = ""
    /\ stopSignal = FALSE
    /\ commands = 0
    /\ jumps = 0
    /\ extWrites = 0
    /\ cap = [cycles |-> MaxLoopCycle, commands |-> 1, jumps |-> 0,
               extWrites |-> 0, replay |-> FALSE, history |-> TRUE]
    /\ hist = [NoHist EXCEPT
                !.demoted = [a \in Accounts |->
                                IF rows[a].status = "expired" THEN DemotedBefore
                                ELSE NoTime]]

NextLoop ==
    \/ Start
    \/ LoopTop \/ HealthStep \/ VerifyList \/ VerifyOne \/ Pacing
    \/ Cleanup \/ Sleep
    \/ Interrupt \/ RequestStop

SpecLoop == InitLoop /\ [][NextLoop]_vars

\* The operator runs `verify` several times in a row, with no time passing
\* and nothing else writing the table; the services and the store answer for
\* an account as they did the first time.
TwiceTables ==
    {[a \in Accounts |-> IF a = RowOrder[1] THEN r1 ELSE r2] :
        r1 \in {Row("active", StaleToken, Cooling),
                Row("active", EmptyToken, Cooling)},
        r2 \in {Row("active", StaleToken, Cooling),
                Row("active", StaleToken, NoTime),
                Row("active", FreshToken, Cooling)}}

InitTwice ==
    /\ rows \in TwiceTables
    /\ now = T0
    /\ pc = "prompt"
    /\ cmd = "none"
    /\ running = FALSE
    /\ cycle = 0
    /\ pending = <<>>
    /\ listed = {}
    /\ processed = {}
    /\ passState = "none"
    /\ last = NoLast
    /\ purgeLog = NoPurge
    /\ report = NoReport
    /\ raised = ""
    /\ stopSignal = FALSE
    /\ commands = 0
    /\ jumps = 0
    /\ extWrites = 0
    /\ cap = [cycles |-> 0, commands |-> MaxPasses, jumps |-> 0,
               extWrites |-> 0, replay |-> TRUE, history |-> FALSE]
    /\ hist = NoHist

NextTwice == CmdVerify \/ VerifyList \/ VerifyOne \/ Pacing

SpecTwice == InitTwice /\ [][NextTwice]_vars

\* The operator asks for the status of a pool of up to 36 rows.
Pool(active, expired, blocked) ==
    [i \in 1..(active + expired + blocked) |->
        IF i <= active THEN Row("active", FreshToken, Cooling)
        ELSE IF i <= active + expired
        THEN Row("expired", StaleToken, T0 - 3 * Day)
        ELSE Row("blocked", StaleToken, NoTime)]

InitHealth ==
    /\ rows \in {Pool(a, e, b) :
                    a \in 0..MaxActive, e \in 0..MaxExpired, b \in 0..MaxBlocked}
    /\ now = T0
    /\ pc = "prompt"
    /\ cmd = "none"
    /\ running = FALSE
    /\ cycle = 0
    /\ pending = <<>>
    /\ listed = {}
    /\ processed = {}
    /\ passState = "none"
    /\ last = NoLast
    /\ purgeLog = NoPurge
    /\ report = NoReport
    /\ raised = ""
    /\ stopSignal = FALSE
    /\ commands = 0
    /\ jumps = 0
    /\ extWrites = 0
    /\ cap = [cycles |-> 0, commands |-> 1, jumps |-> 0,
               extWrites |-> 0, replay |-> FALSE, history |-> FALSE]
    /\ hist = NoHist

NextHealth == CmdStatus \/ HealthStep

SpecHealth == InitHealth /\ [][NextHealth]_vars

\* The operator runs `verify` on a table whose first row holds a bearer token
\* of any shape and has never been refreshed.
Malformed(form) == [form |-> form, exp |-> 0]
TokenShapes ==
    {Malformed(f) : f \in TokenForms \ {"jwt"}}
    \cup {Jwt(e) : e \in {T0 - 1, T0 + BUFFER_MINUTES - 1, T0 + BUFFER_MINUTES,
                          T0 + BUFFER_MINUTES + 1, T0 + TOKEN_REFRESH_HOURS * Hour,
                          T0 + TOKEN_REFRESH_HOURS * Hour + BUFFER_MINUTES + 1}}
TokenTables ==
    {[a \in Accounts |-> IF a = RowOrder[1] THEN Row("active", tok, NoTime)
                         ELSE Row("active", Jwt(e), NoTime)] :
        tok \in TokenShapes,
        e \in {T0 + BUFFER_MINUTES, T0 + BUFFER_MINUTES + 1}}

InitToken ==
    /\ rows \in TokenTables
    /\ now = T0
    /\ pc = "prompt"
    /\ cmd = "none"
    /\ running = FALSE
    /\ cycle = 0
    /\ pending = <<>>
    /\ listed = {}
    /\ processed = {}
    /\ passState = "none"
    /\ last = NoLast
    /\ purgeLog = NoPurge
    /\ report = NoReport
    /\ raised = ""
    /\ stopSignal = FALSE
    /\ commands = 0
    /\ jumps = 0
    /\ extWrites = 0
    /\ cap = [cycles |-> 0, commands |-> 1, jumps |-> MaxJumps,
               extWrites |-> 0, replay |-> FALSE, history |-> FALSE]
    /\ hist = NoHist

NextToken == CmdVerify \/ VerifyList \/ VerifyOne \/ Pacing \/ Tick

SpecToken == InitToken /\ [][NextToken]_vars

\* ---------------------------------------------------------------- properties
\* The loop body has just run for last.email: last.pre and last.post are its
\* row before and after, last.at the time, last.account the listed snapshot.
Processed == last.outcome # "none"
Cooldown == TOKEN_REFRESH_HOURS * Hour
SameTokens(r1, r2) ==
    /\ r1.id_token = r2.id_token
    /\ r1.refresh_token = r2.refresh_token
    /\ r1.last_refresh_time = r2.last_refresh_time
\* the row's bearer token is expired and its refresh is on cooldown
CoolingExpired(row, t) ==
    /\ IsTokenExpired(row.id_token, BUFFER_MINUTES, t)
    /\ row.last_refresh_time # NoTime
    /\ t - row.last_refresh_time < Cooldown
QuotaSufficient == last.quotaSuccess /\ last.remaining >= MIN_QUOTA_THRESHOLD

\* C1: when a verification pass is over, however it ended, every account it
\* listed has been processed: no fault on one account keeps the pass from the
\* accounts listed after it.
C1_EveryListedProcessed ==
    passState \in {"done", "aborted"} => listed \subseteq processed

\* C2 as claimed: an active account with an expired bearer token and a refresh
\* on cooldown is skipped: no quota query is made for it and it stays active.
C2_CoolingSkipped ==
    (Processed /\ last.pre.status = "active" /\ CoolingExpired(last.pre, last.at))
        => ~last.quotaCalled /\ last.post.status = "active"

\* C2 as the code has it: such an account is not refreshed and keeps its
\* tokens and last_refresh_time, but the quota check is not skipped: unless
\* the bearer token is empty or the row cannot be read, the quota service is
\* asked with the stored token, and the account is still active afterwards
\* exactly when the answer was a success with remaining >= MIN_QUOTA_THRESHOLD
\* (or the demotion could not be written at all).
C2_CoolingNotRefreshed ==
    (Processed /\ last.pre.status = "active" /\ CoolingExpired(last.pre, last.at))
        => /\ last.refresh = "not_called"
           /\ SameTokens(last.pre, last.post)
           /\ (last.pre.id_token # EmptyToken /\ last.outcome # "exception")
                => last.quotaCalled
           /\ last.quotaCalled => last.quotaToken = last.pre.id_token
           /\ (last.quotaCalled /\ ~last.escaped)
                => (last.post.status = "active" <=> QuotaSufficient)
           /\ ~last.quotaCalled
                => (last.post.status = "active"
                        <=> (last.outcome = "skipped" \/ last.escaped))

C2_Witness ==
    /\ Processed /\ last.pre.status = "active"
    /\ CoolingExpired(last.pre, last.at)
    /\ last.quotaCalled /\ last.quotaToken = last.pre.id_token
    /\ last.post.status = "expired"

C5_CooldownNeverBypassed ==
    /\ (Processed /\ last.refresh # "not_called")
        => \/ last.pre.last_refresh_time = NoTime
           \/ last.at - last.pre.last_refresh_time >= Cooldown
    /\ \A a \in Accounts :
        (/\ rows[a].status # "deleted"
         /\ rows[a].last_refresh_time # NoTime
         /\ now - rows[a].last_refresh_time < Cooldown)
            => ~CanRefreshToken(ToAccount(a, rows[a]), now)

\* a refresh exactly one cooldown after the last one; the refreshed row is
\* now inside the window and cannot be refreshed again
C5_Witness ==
    /\ Processed /\ last.refresh = "success"
    /\ last.pre.last_refresh_time # NoTime
    /\ last.at - last.pre.last_refresh_time = Cooldown
    /\ rows[last.email].last_refresh_time = now
    /\ ~CanRefreshToken(ToAccount(last.email, rows[last.email]), now)

\* C6: the only status the core writes is expired: in every step of the
\* core (any command, pass, purge or health report; not a write by an external
\* collaborator) a row whose status changes becomes expired, or is deleted by
\* the purge from expired; so no row goes from expired to active and none is
\* set to blocked.
C6_OnlyExpiredWritten ==
    [][extWrites' = extWrites =>
        \A a \in Accounts :
            rows'[a].status # rows[a].status
                => \/ rows'[a].status = "expired"
                   \/ rows[a].status = "expired" /\ rows'[a].status = "deleted"]_vars

\* a pass has demoted an active row while a blocked row is in the table
C6_Witness ==
    /\ Processed /\ last.pre.status = "active" /\ last.post.status = "expired"
    /\ \E a \in Accounts : rows[a].status = "blocked"

\* C7: a row that is expired or blocked when the pass comes to it is left as
\* it is: status, tokens and last_refresh_time.
C7_PassiveRowsUntouched ==
    (Processed /\ last.pre.status \in {"expired", "blocked"})
        => last.post = last.pre

\* C8: last_refresh_time of a row never decreases, and it changes only in the
\* step where a refresh for that row succeeded and update_account_token
\* stored the new bearer token; every other step leaves it as it is.
C8_LastRefreshTimeMonotone ==
    [][\A a \in Accounts :
        (rows[a].status # "deleted" /\ rows'[a].status # "deleted")
            => /\ rows'[a].last_refresh_time >= rows[a].last_refresh_time
               /\ rows'[a].last_refresh_time # rows[a].last_refresh_time
                    => /\ last'.email = a
                       /\ last'.refresh = "success"
                       /\ rows'[a].last_refresh_time = now
                       /\ rows'[a].id_token = Jwt(now + TokenLifetime)]_vars

\* one row refreshed (time moved to now), and a row demoted after a quota
\* check in the same pass with its time as before
C8_Witness ==
    /\ Processed /\ last.refresh = "failure" /\ last.post.status = "expired"
    /\ last.post.last_refresh_time = last.pre.last_refresh_time
    /\ \E a \in Accounts \ {last.email} :
            rows[a].last_refresh_time = now /\ rows[a].status = "expired"

\* the purge deleted exactly the expired rows refreshed more than days ago
PurgeExact(pre, post, t, days, count) ==
    LET old == {a \in Accounts :
                    /\ pre[a].status = "expired"
                    /\ pre[a].last_refresh_time # NoTime
                    /\ t - pre[a].last_refresh_time > days * Day}
    IN /\ \A a \in old : post[a] = DeletedRow
       /\ \A a \in Accounts \ old : post[a] = pre[a]
       /\ count = Cardinality(old)

\* C9: cleanup_expired_accounts(days) deletes exactly the rows that are
\* expired with a last_refresh_time more than days before now, returns their
\* number and leaves every other row as it was: for the purge that has just
\* run (days = 7) and for a purge of the present table with days = 7 or the
\* default 30.
C9_PurgeExact ==
    /\ purgeLog # NoPurge
        => PurgeExact(purgeLog.pre, purgeLog.post, purgeLog.at, purgeLog.days,
                      purgeLog.deleted_count)
    /\ \A days \in {CLEANUP_DAYS, DEFAULT_CLEANUP_DAYS} :
        LET c == CleanupExpiredAccounts(rows, days, now)
        IN PurgeExact(rows, c.db, now, days, c.deleted_count)

\* days = 7, expired rows refreshed 10 and 3 days ago: the first is deleted,
\* the second kept, the result is 1
C9_Witness ==
    /\ purgeLog # NoPurge /\ purgeLog.days = 7
    /\ purgeLog.pre["a1"].status = "expired"
    /\ purgeLog.pre["a1"].last_refresh_time = purgeLog.at - 10 * Day
    /\ purgeLog.pre["a2"].status = "expired"
    /\ purgeLog.pre["a2"].last_refresh_time = purgeLog.at - 3 * Day
    /\ purgeLog.post["a1"] = DeletedRow
    /\ purgeLog.post["a2"] = purgeLog.pre["a2"]
    /\ purgeLog.deleted_count = 1

\* C10: in the maintenance loop, a step in which check_pool_health,
\* verify_accounts or cleanup raises goes to the loop's sleep with the service
\* still in automatic mode and the running flag and cycle count as they were;
\* from the sleep the loop comes back to its test; and the loop is left only
\* in a step that has a stop signal behind it and ends with the flag cleared.
C10_LoopSurvivesExceptions ==
    [][/\ (/\ cmd = "auto"
           /\ pc \in {"health", "verify", "account", "cleanup"}
           /\ pc' # pc /\ raised' # "")
            => /\ pc' = "sleep" /\ cmd' = "auto"
               /\ running' = running /\ cycle' = cycle
       /\ (cmd = "auto" /\ pc = "sleep" /\ pc' # pc /\ cmd' = "auto")
            => pc' = "loop" /\ running' = running
       /\ (cmd = "auto" /\ pc = "loop" /\ pc' # pc /\ running /\ cmd' = "auto")
            => pc' = "health" /\ cycle' = cycle + 1
       /\ (cmd = "auto" /\ cmd' # "auto")
            => stopSignal' /\ ~running']_vars

\* the purge of the 10th cycle raised, and the 11th cycle has begun
C10_Witness ==
    /\ cmd = "auto" /\ running /\ ~stopSignal
    /\ raised = "cleanup"
    /\ cycle = CLEANUP_EVERY + 1 /\ pc = "health"

\* the steps of one cycle of the maintenance loop, before its sleep
InCycle == cmd = "auto" /\ pc \in {"health", "verify", "account", "pacing", "cleanup"}

\* C11: once the running flag has been cleared during a cycle, the step that
\* ends the cycle does not enter the inter-cycle sleep.
C11_StopSkipsSleep ==
    [][(InCycle /\ ~running /\ cmd' = "auto" /\ pc' # pc) => pc' # "sleep"]_vars

NewToken(t) == Jwt(t + TokenLifetime)

\* the exchange secret in the row after a stored refresh: the one the response
\* carried (last.secret), or the old one if it carried none
SecretRule ==
    last.post.refresh_token =
        IF last.secret # "" THEN last.secret ELSE last.pre.refresh_token

TwoPassesOver ==
    /\ pc = "prompt" /\ passState \in {"done", "aborted"}
    /\ Len(hist.tables) >= 2
\* the table before the earlier of the last two passes, and between them
BeforeFirst == hist.tables[Len(hist.tables) - 1]
AfterFirst == hist.tables[Len(hist.tables)]
\* active, bearer token expired, refresh on cooldown
CooldownProtected(row) == row.status = "active" /\ CoolingExpired(row, now)

\* C14 as claimed: after two passes in immediate succession a
\* cooldown-protected credential has the status it had after the first, and
\* that is the status it had before the first.
C14_TwicePreservesStatus ==
    TwoPassesOver =>
        \A a \in Accounts :
            CooldownProtected(BeforeFirst[a])
                => /\ rows[a].status = AfterFirst[a].status
                   /\ AfterFirst[a].status = BeforeFirst[a].status

\* C14 as the code has it: with the services and the store answering the
\* second pass as they answered the first, the status after the second pass
\* is the status after the first; but the first pass makes the quota check
\* with the expired token, so when no storage call raised and the token is
\* not empty the credential is active after it only if that check succeeded
\* with remaining >= MIN_QUOTA_THRESHOLD, and expired otherwise.
C14_TwiceSameAsOnce ==
    TwoPassesOver =>
        \A a \in Accounts :
            CooldownProtected(BeforeFirst[a])
                => /\ rows[a].status = AfterFirst[a].status
                   /\ AfterFirst[a].status \in {"active", "expired"}
                   /\ (/\ hist.answers[a] # NoAnswer
                       /\ hist.answers[a].f.first = "none"
                       /\ BeforeFirst[a].id_token # EmptyToken)
                        => (AfterFirst[a].status = "active"
                            <=> /\ hist.answers[a].qanswer.kind = "ok"
                                /\ hist.answers[a].qanswer.remaining
                                        >= MIN_QUOTA_THRESHOLD)

\* two passes over two cooldown-protected credentials: the first demoted by
\* the first pass and expired after both, the second active after both
C14_Witness ==
    /\ TwoPassesOver
    /\ CooldownProtected(BeforeFirst["a1"]) /\ CooldownProtected(BeforeFirst["a2"])
    /\ AfterFirst["a1"].status = "expired" /\ rows["a1"].status = "expired"
    /\ AfterFirst["a2"].status = "active" /\ rows["a2"].status = "active"
    /\ hist.answers["a2"].qanswer.kind = "ok"
    /\ processed = {"a2"}

\* C15: the health report leaves every row as it is; the total it reports is
\* the number of rows and the sum of the active, expired and blocked counts,
\* each of them the number of rows of that status; and it signals a shortfall
\* exactly when the active count is below MIN_POOL_SIZE.
C15_HealthReport ==
    [][pc = "health" =>
        /\ rows' = rows
        /\ report' # NoReport =>
            /\ report'.total = Cardinality(DOMAIN rows)
            /\ report'.total = report'.active + report'.expired + report'.blocked
            /\ \A s \in {"active", "expired", "blocked"} :
                report'[s] = Cardinality({i \in DOMAIN rows : rows[i].status = s})
            /\ report'.shortfall <=> report'.active < MIN_POOL_SIZE]_vars

\* 30 active, 5 expired, 1 blocked: total 36 and no shortfall
C15_Witness ==
    /\ report = [total |-> 36, active |-> 30, expired |-> 5, blocked |-> 1,
                 shortfall |-> FALSE]
    /\ Cardinality(DOMAIN rows) = 36

\* buffers is_token_expired is asked with: none, the default, twice that
Buffers == {0, BUFFER_MINUTES, 2 * BUFFER_MINUTES}
\* exp - now <= bufferMinutes * 60, in seconds
WithinBuffer(id_token, buffer_minutes, t) ==
    (id_token.exp - t) * SecondsPerMinute <= buffer_minutes * 60

\* C16: is_token_expired is true for every stored token that is empty, has
\* other than 3 segments, has an undecodable middle segment or has no exp, and
\* for a well-formed token it is true exactly when exp - now <= buffer * 60;
\* and the loop body asks the refresh service for a never-refreshed account
\* exactly when its token is expired in this sense with the default buffer.
C16_IsExpiredFailSafe ==
    /\ \A a \in Accounts, b \in Buffers :
        LET tok == rows[a].id_token
        IN IF tok.form # "jwt" THEN IsTokenExpired(tok, b, now)
           ELSE IsTokenExpired(tok, b, now) <=> WithinBuffer(tok, b, now)
    /\ (Processed /\ last.account.last_refresh_time = NoTime)
        => (last.refresh # "not_called"
            <=> \/ last.account.id_token.form # "jwt"
                \/ WithinBuffer(last.account.id_token, BUFFER_MINUTES, last.at))

\* a token with a garbled payload has been sent to the refresh service and
\* its account demoted; a token one minute beyond the buffer has not
C16_Witness ==
    /\ rows["a1"].id_token.form = "garbled" /\ rows["a1"].status = "expired"
    /\ Processed /\ last.email = "a2" /\ last.refresh = "not_called"
    /\ last.account.id_token = Jwt(last.at + BUFFER_MINUTES + 1)
    /\ processed = {"a1", "a2"}

\* the loop body that has just run asked the refresh service
RefreshAttempted == last'.outcome # "none" /\ last' # last /\ last'.refresh # "not_called"

\* C17: a refresh attempt for a credential comes at least the cooldown after
\* the attempt before it for the same credential.
C17_AttemptsApart ==
    [][(RefreshAttempted /\ hist.attempt[last'.email] # NoTime)
        => now - hist.attempt[last'.email] >= Cooldown]_vars

\* C18: when the loop body has run for a credential and another is still to
\* come, the pacing delay comes next, whatever the outcome.
C18_PacingBetweenAll ==
    [][(last'.outcome # "none" /\ last' # last /\ pending' # <<>>)
        => pc' = "pacing"]_vars

\* the rows the purge that has just run deleted
Purged == {a \in Accounts : purgeLog.pre[a].status # "deleted"
                            /\ purgeLog.post[a].status = "deleted"}

\* C19: a row the periodic purge deletes was demoted to expired at least
\* CLEANUP_DAYS days before the purge.
C19_PurgedAfterRetention ==
    (cmd = "auto" /\ purgeLog # NoPurge)
        => \A a \in Purged :
            hist.demoted[a] # NoTime
                => purgeLog.at - hist.demoted[a] >= CLEANUP_DAYS * Day

\* C20: a periodic purge that runs when a row has been expired for longer
\* than the retention window deletes it, a row without last_refresh_time
\* included; so such a row does not outlive the first purge after the window.
C20_ExpiredEventuallyPurged ==
    (cmd = "auto" /\ purgeLog # NoPurge)
        => \A a \in Accounts :
            (/\ purgeLog.pre[a].status = "expired"
             /\ hist.demoted[a] # NoTime
             /\ purgeLog.at - hist.demoted[a] > CLEANUP_DAYS * Day)
                => purgeLog.post[a] = DeletedRow

====
